---- MODULE Spec2Model ----
(***************************************************************************)
(* The alert lifecycle engine of the football betting bot                  *)
(* (src/worker/bot.py driven by the loop of src/worker/main.py).           *)
(*                                                                         *)
(* Time is counted in seconds.  The Firestore collections, the in-memory   *)
(* cache of the FirebaseManager and the in-memory tracker are partial maps *)
(* from fixture ids to records.  Every handler is a pure operator over a   *)
(* "world" record w (the mutable program state plus the notifications the  *)
(* call has sent); the actions apply whole handlers to the variables.      *)
(* Every Firestore call can raise: the inputs f.rd, f.set, f.del say       *)
(* whether the reads, the set() and the delete() of a step succeed.        *)
(***************************************************************************)
EXTENDS Integers, Sequences, FiniteSets, TLC

\* ------------------------------------------------------------------ bounds
\* Seconds the clock advances between two observations of the loop.
Tick == 450
\* Number of clock advances explored after start-up.
MaxTicks == 1
\* The same for the runs of the stale sweep, which need a full gate interval.
SweepTicks == 2

\* ------------------------------------------------------- program constants
FIXTURE_API_INTERVAL == 900
MAX_FETCH_RETRIES == 3
BET_RESOLUTION_WAIT_MINUTES == 180
max_retries == 3

MINUTES_REGULAR_BET == {36, 37}
BET_TYPE_REGULAR == "regular"
STATUS_LIVE == {"LIVE", "1H", "2H", "ET", "P"}
STATUS_HALFTIME == "HT"
STATUS_FINISHED == {"FT", "AET", "PEN"}
QualifyingScores == {"1-1", "2-2", "3-3"}

\* --------------------------------------------------------------- universe
None == "None"
\* No timestamp (a missing field, None).
NoTime == 0 - 1
\* total_elapsed_minutes is None.
NoMinute == 0 - 1
Entities == {101, 102}
\* A bet type of an earlier version of the bot, which does not resolve at HT.
BET_TYPE_LEGACY == "32_over"
Scores == {"0-0", "1-1", "2-2"}
Minutes == {30, 36, 37}
\* The clock at start-up: late enough for a record placed at 0 to be stale.
StartTime == BET_RESOLUTION_WAIT_MINUTES * 60 + Tick
MaxTime == StartTime + MaxTicks * Tick
SweepMaxTime == StartTime + SweepTicks * Tick

VARIABLES
    pc,                     \* position of the main loop
    RUNNING,                \* main.py: the loop flag the signal handler clears
    cursor,                 \* id of the last match of the live list processed
    now,                    \* datetime.utcnow(), in seconds
    SOFASCORE_CLIENT,       \* "none" | "ready"
    LOCAL_TRACKED_MATCHES,  \* id -> [placed, score]
    unresolved_bets,        \* Firestore collection 'unresolved_bets'
    resolved_bets,          \* Firestore collection 'resolved_bets'
    unresolved_bets_cache,  \* FirebaseManager._unresolved_bets_cache
    api_tracker,            \* config/api_tracker.last_resolution_api_call
    last_lookup_at,         \* history: time of the last sweep that looked up
    last_lookup_recorded,   \* history: that sweep wrote its time to the gate
    prev_sweep,             \* history: what the previous stale sweep did
    last                    \* what the last step did (observation record)

vars == << pc, RUNNING, cursor, now, SOFASCORE_CLIENT, LOCAL_TRACKED_MATCHES,
           unresolved_bets, resolved_bets, unresolved_bets_cache, api_tracker,
           last_lookup_at, last_lookup_recorded, prev_sweep, last >>

\* ------------------------------------------------------------ map helpers
Put(m, k, v) == [x \in (DOMAIN m) \cup {k} |-> IF x = k THEN v ELSE m[x]]
Del(m, k) == [x \in (DOMAIN m) \ {k} |-> m[x]]
Empty == [x \in {} |-> None]

\* The world a handler works on.
World ==
    [ tracked |-> LOCAL_TRACKED_MATCHES,
      unresolved |-> unresolved_bets,
      resolved |-> resolved_bets,
      cache |-> unresolved_bets_cache,
      msgs |-> << >> ]

\* ------------------------------------------------------- FirebaseManager
\* is_bet_unresolved: cache first, then one document read; a failed read
\* answers False.
is_bet_unresolved_any_collection(w, id, rdOK) ==
    IF id \in DOMAIN w.cache THEN [ret |-> TRUE, w |-> w]
    ELSE IF rdOK /\ id \in DOMAIN w.unresolved
         THEN [ret |-> TRUE,
               w |-> [w EXCEPT !.cache = Put(@, id, w.unresolved[id])]]
         ELSE [ret |-> rdOK /\ id \in DOMAIN w.resolved, w |-> w]

is_bet_unresolved(w, id, rdOK) ==
    IF id \in DOMAIN w.cache THEN [ret |-> TRUE, w |-> w]
    ELSE IF rdOK /\ id \in DOMAIN w.unresolved
         THEN [ret |-> TRUE,
               w |-> [w EXCEPT !.cache = Put(@, id, w.unresolved[id])]]
         ELSE [ret |-> FALSE, w |-> w]

\* get_unresolved_bet_data: cache first, then one document read (found is
\* "the result is not None").
get_unresolved_bet_data(w, id, rdOK) ==
    IF id \in DOMAIN w.cache
    THEN [found |-> TRUE, ret |-> w.cache[id], w |-> w]
    ELSE IF rdOK /\ id \in DOMAIN w.unresolved
         THEN [found |-> TRUE, ret |-> w.unresolved[id],
               w |-> [w EXCEPT !.cache = Put(@, id, w.unresolved[id])]]
         ELSE [found |-> FALSE, ret |-> None, w |-> w]

\* add_unresolved_bet: stamps placed_at, set()s the document (an overwrite,
\* not a create) and caches it; a failed set() is logged and swallowed.
add_unresolved_bet_caches_first(w, id, data, setOK, t) ==
    LET stamped == [data EXCEPT !.placed_at = t]
    IN  IF setOK
        THEN [w EXCEPT !.unresolved = Put(@, id, stamped),
                       !.cache = Put(@, id, stamped)]
        ELSE [w EXCEPT !.cache = Put(@, id, stamped)]

add_unresolved_bet(w, id, data, setOK, t) ==
    LET stamped == [data EXCEPT !.placed_at = t]
    IN  IF setOK
        THEN [w EXCEPT !.unresolved = Put(@, id, stamped),
                       !.cache = Put(@, id, stamped)]
        ELSE w

\* move_to_resolved: set() the resolved document, then delete() the
\* unresolved one, then drop the cache entry; the first call that raises ends
\* the method with False and keeps what was already written.
move_to_resolved_keeps_cache(w, id, bet_info, outcome, setOK, delOK, t) ==
    LET resolved_data ==
            [ bet_type |-> bet_info.bet_type,
              s36 |-> bet_info.s36,
              placed_at |-> bet_info.placed_at,
              outcome |-> outcome,
              resolved_at |-> t ]
    IN  IF ~setOK THEN [ret |-> FALSE, w |-> w]
        ELSE IF ~delOK
             THEN [ret |-> FALSE,
                   w |-> [w EXCEPT !.resolved = Put(@, id, resolved_data)]]
             ELSE [ret |-> TRUE,
                   w |-> [w EXCEPT !.resolved = Put(@, id, resolved_data),
                                   !.unresolved = Del(@, id)]]

move_to_resolved(w, id, bet_info, outcome, setOK, delOK, t) ==
    LET resolved_data ==
            [ bet_type |-> bet_info.bet_type,
              s36 |-> bet_info.s36,
              placed_at |-> bet_info.placed_at,
              outcome |-> outcome,
              resolved_at |-> t ]
    IN  IF ~setOK THEN [ret |-> FALSE, w |-> w]
        ELSE IF ~delOK
             THEN [ret |-> FALSE,
                   w |-> [w EXCEPT !.resolved = Put(@, id, resolved_data)]]
             ELSE [ret |-> TRUE,
                   w |-> [w EXCEPT !.resolved = Put(@, id, resolved_data),
                                   !.unresolved = Del(@, id),
                                   !.cache = Del(@, id)]]

\* ----------------------------------------------------------- send_telegram
\* firstOK is the number of the first attempt that gets a 200 (0: none does).
send_telegram(firstOK) ==
    [ ret |-> firstOK \in 1..max_retries,
      attempts |-> IF firstOK \in 1..max_retries THEN firstOK ELSE max_retries ]

Notify(w, kind, id, firstOK) ==
    [w EXCEPT !.msgs = Append(@, [kind |-> kind, id |-> id,
                                  ok |-> send_telegram(firstOK).ret])]

\* -------------------------------------------------------- place_regular_bet
place_regular_bet_flag_on_open(w, id, score, f, t) ==
    LET state == w.tracked[id]
        q == is_bet_unresolved(w, id, f.rd)
    IN  IF q.ret
        THEN [q.w EXCEPT !.tracked = Put(@, id, [state EXCEPT !.placed = TRUE])]
        ELSE IF score \in QualifyingScores
             THEN LET w1 == [q.w EXCEPT !.tracked =
                                Put(@, id, [placed |-> TRUE, score |-> score])]
                      unresolved_data ==
                          [ bet_type |-> BET_TYPE_REGULAR,
                            s36 |-> score,
                            placed_at |-> t ]
                      w2 == add_unresolved_bet(w1, id, unresolved_data, f.set, t)
                  IN  Notify(w2, "placed", id, f.tg)
             ELSE q.w

place_regular_bet(w, id, score, f, t) ==
    LET state == w.tracked[id]
        q == is_bet_unresolved(w, id, f.rd)
    IN  IF q.ret
        THEN [q.w EXCEPT !.tracked = Put(@, id, [state EXCEPT !.placed = TRUE])]
        ELSE IF score \in QualifyingScores
             THEN LET w1 == [q.w EXCEPT !.tracked =
                                Put(@, id, [placed |-> TRUE, score |-> score])]
                      unresolved_data ==
                          [ bet_type |-> BET_TYPE_REGULAR,
                            s36 |-> score,
                            placed_at |-> t ]
                      w2 == add_unresolved_bet(w1, id, unresolved_data, f.set, t)
                  IN  Notify(w2, "placed", id, f.tg)
             ELSE [q.w EXCEPT !.tracked = Put(@, id, [state EXCEPT !.placed = TRUE])]

\* ---------------------------------------------------------- check_ht_result
check_ht_result_first_goal(w, id, score, f, t) ==
    LET d == get_unresolved_bet_data(w, id, f.rd)
        outcome ==
            IF d.found /\ d.ret.bet_type = BET_TYPE_REGULAR
            THEN (IF score # "0-0" THEN "win" ELSE "loss")
            ELSE None
        w1 == IF outcome # None
              THEN Notify(move_to_resolved(d.w, id, d.ret, outcome,
                                           f.set, f.del, t).w,
                          outcome, id, f.tg)
              ELSE d.w
        q == is_bet_unresolved(w1, id, f.rd)
    IN  IF ~q.ret
        THEN [q.w EXCEPT !.tracked = Del(@, id)]
        ELSE q.w

check_ht_result(w, id, score, f, t) ==
    LET d == get_unresolved_bet_data(w, id, f.rd)
        outcome ==
            IF d.found /\ d.ret.bet_type = BET_TYPE_REGULAR
            THEN (IF score = d.ret.s36 THEN "win" ELSE "loss")
            ELSE None
        w1 == IF outcome # None
              THEN Notify(move_to_resolved(d.w, id, d.ret, outcome,
                                           f.set, f.del, t).w,
                          outcome, id, f.tg)
              ELSE d.w
        q == is_bet_unresolved(w1, id, f.rd)
    IN  IF ~q.ret
        THEN [q.w EXCEPT !.tracked = Del(@, id)]
        ELSE q.w

\* ------------------------------------------------------- process_live_match
\* Lines 581-585: the first keyword that matches decides.
StatusOf_unmapped_as_live(desc) ==
    IF "1ST HALF" \in desc THEN "1H"
    ELSE IF "2ND HALF" \in desc THEN "2H"
    ELSE IF "HALFTIME" \in desc THEN STATUS_HALFTIME
    ELSE IF "FINISHED" \in desc \/ "ENDED" \in desc \/ "CANCELLED" \in desc
         THEN "FT"
    ELSE "1H"

StatusOf(desc) ==
    IF "1ST HALF" \in desc THEN "1H"
    ELSE IF "2ND HALF" \in desc THEN "2H"
    ELSE IF "HALFTIME" \in desc THEN STATUS_HALFTIME
    ELSE IF "FINISHED" \in desc \/ "ENDED" \in desc \/ "CANCELLED" \in desc
         THEN "FT"
    ELSE IF \E s \in STATUS_LIVE : desc = {s} THEN CHOOSE s \in STATUS_LIVE : desc = {s}
    ELSE "N/A"

\* A snapshot the league filters let through; m.minute may be NoMinute.
process_live_match_any_minute(w, m, f, t) ==
    LET id == m.id
        status == StatusOf(m.desc)
    IN  IF status \notin STATUS_LIVE /\ status # STATUS_HALFTIME THEN w
        ELSE IF m.minute = NoMinute /\ status # STATUS_HALFTIME THEN w
        ELSE
          LET state == IF id \in DOMAIN w.tracked THEN w.tracked[id]
                       ELSE [placed |-> FALSE, score |-> None]
              w0 == [w EXCEPT !.tracked = Put(@, id, state)]
              q == is_bet_unresolved(w0, id, f.rd)
              w1 == IF status = "1H" /\ ~state.placed
                    THEN place_regular_bet(w0, id, m.score, f, t)
                    ELSE IF status = STATUS_HALFTIME /\ q.ret
                         THEN check_ht_result(q.w, id, m.score, f, t)
                         ELSE IF status = STATUS_HALFTIME THEN q.w ELSE w0
              q2 == is_bet_unresolved(w1, id, f.rd)
          IN  IF status \in STATUS_FINISHED /\ ~q2.ret
              THEN [q2.w EXCEPT !.tracked = Del(@, id)]
              ELSE IF status \in STATUS_FINISHED THEN q2.w ELSE w1

process_live_match(w, m, f, t) ==
    LET id == m.id
        status == StatusOf(m.desc)
    IN  IF status \notin STATUS_LIVE /\ status # STATUS_HALFTIME THEN w
        ELSE IF m.minute = NoMinute /\ status # STATUS_HALFTIME THEN w
        ELSE
          LET state == IF id \in DOMAIN w.tracked THEN w.tracked[id]
                       ELSE [placed |-> FALSE, score |-> None]
              w0 == [w EXCEPT !.tracked = Put(@, id, state)]
              q == is_bet_unresolved(w0, id, f.rd)
              w1 == IF status = "1H" /\ m.minute \in MINUTES_REGULAR_BET
                       /\ ~state.placed
                    THEN place_regular_bet(w0, id, m.score, f, t)
                    ELSE IF status = STATUS_HALFTIME /\ q.ret
                         THEN check_ht_result(q.w, id, m.score, f, t)
                         ELSE IF status = STATUS_HALFTIME THEN q.w ELSE w0
              q2 == is_bet_unresolved(w1, id, f.rd)
          IN  IF status \in STATUS_FINISHED /\ ~q2.ret
              THEN [q2.w EXCEPT !.tracked = Del(@, id)]
              ELSE IF status \in STATUS_FINISHED THEN q2.w ELSE w1

\* ------------------------------------------- get_finished_match_details
\* One point lookup through the client; without a client there is no lookup.
get_finished_match_details(client, ok) ==
    [ ret |-> client = "ready" /\ ok,
      lookups |-> IF client = "ready" THEN 1 ELSE 0 ]

\* initialize_sofascore_client: keeps a client that exists, else builds one;
\* a failure leaves None and is not raised.
initialize_sofascore_client(client, initOK) ==
    IF client # "none" THEN client
    ELSE IF initOK THEN "ready" ELSE "none"

\* robust_get_finished_match_details.  p.first is the number of the first
\* lookup that succeeds (0: none; MAX_FETCH_RETRIES + 1: the one after the
\* restart), p.closeOK and p.initOK say whether close() and the
\* re-initialization succeed.  The result counts the calls of
\* get_finished_match_details (calls), those that reached the network
\* (lookups) and the client restarts.
RECURSIVE RobustLoop(_, _, _, _)
RobustLoop(client, p, attempt, done) ==
    \* done: lookups made so far
    IF attempt = MAX_FETCH_RETRIES
    THEN [ret |-> FALSE, client |-> client, lookups |-> done, restarts |-> 0,
          calls |-> attempt]
    ELSE
      LET g == get_finished_match_details(client, p.first = attempt + 1)
      IN  IF g.ret
          THEN [ret |-> TRUE, client |-> client,
                lookups |-> done + g.lookups, restarts |-> 0,
                calls |-> attempt + 1]
          ELSE IF attempt = MAX_FETCH_RETRIES - 1
               THEN \* full client restart
                 IF client # "none" /\ ~p.closeOK
                 THEN \* close() raised: caught at line 418
                      [ret |-> FALSE, client |-> client,
                       lookups |-> done + g.lookups, restarts |-> 1,
                       calls |-> attempt + 1]
                 ELSE
                   LET c2 == initialize_sofascore_client("none", p.initOK)
                       g2 == get_finished_match_details(
                                 c2, p.first = MAX_FETCH_RETRIES + 1)
                   IN  [ret |-> g2.ret, client |-> c2,
                        lookups |-> done + g.lookups + g2.lookups,
                        restarts |-> 1, calls |-> attempt + 2]
               ELSE RobustLoop(client, p, attempt + 1, done + g.lookups)

robust_get_finished_match_details_early_restart(client, p) ==
    RobustLoop(client, p, MAX_FETCH_RETRIES - 1, 0)

robust_get_finished_match_details(client, p) == RobustLoop(client, p, 0, 0)

\* The fetch inputs that differ in what the code does with them.
FetchInputs ==
    { p \in [first : 0..(MAX_FETCH_RETRIES + 1), closeOK : BOOLEAN,
             initOK : BOOLEAN, finished : BOOLEAN,
             tg : {0, 1}, set : {TRUE}, del : {TRUE}] :
        /\ p.first \in 1..MAX_FETCH_RETRIES => p.closeOK /\ p.initOK
        /\ p.first = MAX_FETCH_RETRIES + 1 => p.closeOK /\ p.initOK
        /\ p.first = 0 => ~p.finished
        /\ p.tg = 0 => p.finished /\ p.first = 1
        /\ p.first \in 2..MAX_FETCH_RETRIES => ~p.finished
        /\ ~p.closeOK => p.initOK }

\* --------------------------------------------- get_stale_unresolved_bets
get_stale_unresolved_bets_all_types(unresolved, scanOK, t) ==
    IF ~scanOK THEN {}
    ELSE { id \in DOMAIN unresolved :
             /\ unresolved[id].placed_at # NoTime
             /\ unresolved[id].placed_at < t - BET_RESOLUTION_WAIT_MINUTES * 60 }

get_stale_unresolved_bets(unresolved, scanOK, t) ==
    IF ~scanOK THEN {}
    ELSE { id \in DOMAIN unresolved :
             /\ unresolved[id].bet_type \notin {BET_TYPE_REGULAR}
             /\ unresolved[id].placed_at # NoTime
             /\ unresolved[id].placed_at < t - BET_RESOLUTION_WAIT_MINUTES * 60 }

get_last_api_call_wrong_key(gate, rdOK) == NoTime

get_last_api_call(gate, rdOK) == IF rdOK THEN gate ELSE NoTime

update_last_api_call_dropped(gate, wrOK, t) == gate

update_last_api_call(gate, wrOK, t) == IF wrOK THEN t ELSE gate

\* ------------------------------------------ check_and_resolve_stale_bets
time_since_last_call_unparsed(last_call, t) == FIXTURE_API_INTERVAL + 1

\* Line 639: without a gate record the interval counts as elapsed.
time_since_last_call(last_call, t) ==
    IF last_call # NoTime THEN t - last_call ELSE FIXTURE_API_INTERVAL + 1

\* The loop over the stale bets, in document order.  s carries the client,
\* the flag successful_api_call and the counts of the sweep: per is the
\* number of network lookups made for each bet, finished the bets whose
\* fetched state is a finished one, unsent those of them whose notification
\* could not be delivered.
NoLookups == [e \in Entities |-> 0]


RECURSIVE SweepLoop(_, _, _, _)
SweepLoop_stops_at_failure(todo, fetch, s, t) ==
    IF todo = {} THEN s
    ELSE
      LET id == CHOOSE x \in todo : \A y \in todo : x <= y
          r == robust_get_finished_match_details(s.client, fetch[id])
          \* lines 674-686: no bet type has a rule here, outcome stays None
          outcome == None
          s1 == [ client |-> r.client,
                  successful_api_call |-> s.successful_api_call \/ r.ret,
                  lookups |-> s.lookups + r.lookups,
                  restarts |-> s.restarts + r.restarts,
                  tried |-> s.tried \cup {id},
                  per |-> [s.per EXCEPT ![id] = r.lookups],
                  finished |-> IF r.ret /\ fetch[id].finished
                               THEN s.finished \cup {id} ELSE s.finished,
                  unsent |-> IF r.ret /\ fetch[id].finished /\ fetch[id].tg = 0
                             THEN s.unsent \cup {id} ELSE s.unsent,
                  w |-> IF r.ret /\ fetch[id].finished
                           /\ outcome # None /\ outcome # "error"
                           /\ send_telegram(fetch[id].tg).ret
                        THEN LET w1 == Notify(s.w, outcome, id, fetch[id].tg)
                                 mv == move_to_resolved(
                                           w1, id, s.w.unresolved[id], outcome,
                                           fetch[id].set, fetch[id].del, t)
                             IN  [mv.w EXCEPT !.tracked = Del(@, id)]
                        ELSE s.w ]
      IN  IF r.ret THEN SweepLoop(todo \ {id}, fetch, s1, t) ELSE s1

SweepLoop(todo, fetch, s, t) ==
    IF todo = {} THEN s
    ELSE
      LET id == CHOOSE x \in todo : \A y \in todo : x <= y
          r == robust_get_finished_match_details(s.client, fetch[id])
          \* lines 674-686: no bet type has a rule here, outcome stays None
          outcome == None
          s1 == [ client |-> r.client,
                  successful_api_call |-> s.successful_api_call \/ r.ret,
                  lookups |-> s.lookups + r.lookups,
                  restarts |-> s.restarts + r.restarts,
                  tried |-> s.tried \cup {id},
                  per |-> [s.per EXCEPT ![id] = r.lookups],
                  finished |-> IF r.ret /\ fetch[id].finished
                               THEN s.finished \cup {id} ELSE s.finished,
                  unsent |-> IF r.ret /\ fetch[id].finished /\ fetch[id].tg = 0
                             THEN s.unsent \cup {id} ELSE s.unsent,
                  w |-> IF r.ret /\ fetch[id].finished
                           /\ outcome # None /\ outcome # "error"
                           /\ send_telegram(fetch[id].tg).ret
                        THEN LET w1 == Notify(s.w, outcome, id, fetch[id].tg)
                                 mv == move_to_resolved(
                                           w1, id, s.w.unresolved[id], outcome,
                                           fetch[id].set, fetch[id].del, t)
                             IN  [mv.w EXCEPT !.tracked = Del(@, id)]
                        ELSE s.w ]
      IN  SweepLoop(todo \ {id}, fetch, s1, t)

\* Lines 627-629: nothing is stale (or the scan failed) and the sweep
\* returns at once.  gate_reads counts the calls of get_last_api_call.
EmptySweep_touches_gate(w, client, gate, t) ==
    [ w |-> w, client |-> client, gate |-> update_last_api_call(gate, TRUE, t),
      stale |-> {}, passed |-> FALSE,
      lookups |-> 0, restarts |-> 0, tried |-> {},
      per |-> NoLookups, finished |-> {}, unsent |-> {},
      success |-> FALSE, gate_reads |-> 1 ]

EmptySweep(w, client, gate, t) ==
    [ w |-> w, client |-> client, gate |-> gate,
      stale |-> {}, passed |-> FALSE,
      lookups |-> 0, restarts |-> 0, tried |-> {},
      per |-> NoLookups, finished |-> {}, unsent |-> {},
      success |-> FALSE, gate_reads |-> 0 ]

\* The whole sweep: f.scan, f.rd, f.wr say whether the collection scan, the
\* gate read and the gate write succeed; fetch gives each stale bet's lookups.
check_and_resolve_stale_bets_always_records(w, client, gate, f, fetch, t) ==
    LET stale_bets == get_stale_unresolved_bets(w.unresolved, f.scan, t)
        last_call == get_last_api_call(gate, f.rd)
        s0 == [ client |-> client, successful_api_call |-> FALSE,
                lookups |-> 0, restarts |-> 0, tried |-> {}, per |-> NoLookups,
                finished |-> {}, unsent |-> {}, w |-> w ]
        quiet == [ w |-> w, client |-> client, gate |-> gate,
                   stale |-> stale_bets, passed |-> FALSE,
                   lookups |-> 0, restarts |-> 0, tried |-> {},
                   per |-> NoLookups, finished |-> {}, unsent |-> {},
                   success |-> FALSE, gate_reads |-> 1 ]
    IN  IF stale_bets = {} THEN EmptySweep(w, client, gate, t)
        ELSE IF time_since_last_call(last_call, t) < FIXTURE_API_INTERVAL THEN quiet
        ELSE
          LET s == SweepLoop(stale_bets, fetch, s0, t)
          IN  [ w |-> s.w, client |-> s.client,
                gate |-> update_last_api_call(gate, f.wr, t),
                stale |-> stale_bets, passed |-> TRUE,
                lookups |-> s.lookups, restarts |-> s.restarts,
                tried |-> s.tried, per |-> s.per, finished |-> s.finished,
                unsent |-> s.unsent, success |-> s.successful_api_call,
                gate_reads |-> 1 ]

check_and_resolve_stale_bets(w, client, gate, f, fetch, t) ==
    LET stale_bets == get_stale_unresolved_bets(w.unresolved, f.scan, t)
        last_call == get_last_api_call(gate, f.rd)
        s0 == [ client |-> client, successful_api_call |-> FALSE,
                lookups |-> 0, restarts |-> 0, tried |-> {}, per |-> NoLookups,
                finished |-> {}, unsent |-> {}, w |-> w ]
        quiet == [ w |-> w, client |-> client, gate |-> gate,
                   stale |-> stale_bets, passed |-> FALSE,
                   lookups |-> 0, restarts |-> 0, tried |-> {},
                   per |-> NoLookups, finished |-> {}, unsent |-> {},
                   success |-> FALSE, gate_reads |-> 1 ]
    IN  IF stale_bets = {} THEN EmptySweep(w, client, gate, t)
        ELSE IF time_since_last_call(last_call, t) < FIXTURE_API_INTERVAL THEN quiet
        ELSE
          LET s == SweepLoop(stale_bets, fetch, s0, t)
          IN  [ w |-> s.w, client |-> s.client,
                gate |-> IF s.successful_api_call
                         THEN update_last_api_call(gate, f.wr, t)
                         ELSE gate,
                stale |-> stale_bets, passed |-> TRUE,
                lookups |-> s.lookups, restarts |-> s.restarts,
                tried |-> s.tried, per |-> s.per, finished |-> s.finished,
                unsent |-> s.unsent, success |-> s.successful_api_call,
                gate_reads |-> 1 ]

\* -------------------------------------------- send_telegram, in detail
\* Lines 341-354: responses[i] is what the i-th requests.post gives: "200",
\* another status code ("500"), or a RequestException ("exception").  The
\* result counts the posts made and the seconds slept between them.
PostResults == {"200", "500", "exception"}

RECURSIVE SendLoop(_, _)
SendLoop(responses, attempt) ==
    IF attempt = max_retries
    THEN [ret |-> FALSE, attempts |-> attempt, slept |-> 0, raised |-> FALSE]
    ELSE IF responses[attempt + 1] = "200"
         THEN [ret |-> TRUE, attempts |-> attempt + 1, slept |-> 0,
               raised |-> FALSE]
         ELSE LET pause == IF attempt < max_retries - 1 THEN 2 ^ attempt ELSE 0
                  r == SendLoop(responses, attempt + 1)
              IN  [r EXCEPT !.slept = @ + pause]

\* send_telegram with its environment: the two credentials (lines 333-335)
\* and the responses of the Telegram API.
send_telegram_unchecked_credentials(token, chat_id, responses) ==
    SendLoop(responses, 0)

send_telegram_with(token, chat_id, responses) ==
    IF ~token \/ ~chat_id
    THEN [ret |-> FALSE, attempts |-> 0, slept |-> 0, raised |-> FALSE]
    ELSE SendLoop(responses, 0)

NoSend ==
    [ token |-> TRUE, chat_id |-> TRUE, responses |-> << >>,
      ret |-> FALSE, attempts |-> 0, slept |-> 0, raised |-> FALSE ]

\* ------------------------------------------------------------ observation
NoFault == [rd |-> TRUE, set |-> TRUE, del |-> TRUE, tg |-> 1]
LastNone ==
    [ op |-> "none", id |-> 0, status |-> None, minute |-> NoMinute,
      score |-> None, f |-> NoFault, msgs |-> << >>, stale |-> {},
      passed |-> FALSE, lookups |-> 0, restarts |-> 0, tried |-> {},
      per |-> NoLookups, finished |-> {}, unsent |-> {},
      success |-> FALSE, closes |-> 0, desc |-> {}, gate_reads |-> 0,
      send |-> NoSend ]

\* --------------------------------------------------------------- inputs
\* A status description is modelled by the set of keywords it contains
\* (the code only tests substrings and whole-string equality).
Snapshots ==
    [ id : Entities, desc : {{"1ST HALF"}}, minute : Minutes \cup {NoMinute},
      score : Scores ]
    \cup [ id : Entities, desc : {{"HALFTIME"}}, minute : {NoMinute},
           score : Scores ]
    \cup [ id : Entities, desc : {{"2ND HALF"}, {"ENDED"}, {"NOT STARTED"}},
           minute : {NoMinute}, score : {"0-0"} ]

AllFaults == [rd : BOOLEAN, set : BOOLEAN, del : BOOLEAN, tg : {0, 1}]

\* The Firestore and Telegram outcomes a step of process_live_match can
\* meet: an outcome of a call the step does not make is left at its default.
StepFaults(w, m) ==
    LET status == StatusOf(m.desc)
        id == m.id
        placed == id \in DOMAIN w.tracked /\ w.tracked[id].placed
        reads == id \notin DOMAIN w.cache
        place == status = "1H" /\ m.minute \in MINUTES_REGULAR_BET /\ ~placed
        ht == status = STATUS_HALFTIME
    IN  { f \in AllFaults :
            LET found == id \in DOMAIN w.cache
                         \/ (f.rd /\ id \in DOMAIN w.unresolved)
                writes == \/ place /\ ~found /\ m.score \in QualifyingScores
                          \/ ht /\ found
                               /\ (IF id \in DOMAIN w.cache THEN w.cache[id]
                                   ELSE w.unresolved[id]).bet_type
                                      = BET_TYPE_REGULAR
            IN  /\ ~((place \/ ht) /\ reads) => f.rd
                /\ ~writes => f.set /\ f.tg = 1
                /\ ~(writes /\ ht /\ f.set) => f.del }

\* The outcomes of the scan, the gate read and the gate write of a sweep.
SweepFaults == [scan : BOOLEAN, rd : BOOLEAN, wr : BOOLEAN]

\* The documents 'unresolved_bets' can hold when the process starts: bets
\* of an earlier run (regular) or of an earlier version (32_over).
LegacyOld == [bet_type |-> BET_TYPE_LEGACY, s36 |-> None, placed_at |-> 0]
LegacyNew == [bet_type |-> BET_TYPE_LEGACY, s36 |-> None, placed_at |-> Tick]
RegularOld == [bet_type |-> BET_TYPE_REGULAR, s36 |-> "1-1", placed_at |-> 0]

\* ------------------------------------------------------------------ Init
\* The state when main() starts, over the ledgers L and the gate records G
\* the process may find.
InitOver(L, G) ==
    /\ pc = "boot"
    /\ RUNNING = TRUE
    /\ cursor = 0
    /\ now = StartTime
    /\ SOFASCORE_CLIENT = "none"
    /\ LOCAL_TRACKED_MATCHES = Empty
    /\ unresolved_bets \in L
    /\ resolved_bets = Empty
    /\ unresolved_bets_cache = Empty
    /\ api_tracker \in G
    /\ last_lookup_at = NoTime
    /\ last_lookup_recorded = FALSE
    /\ prev_sweep = [ at |-> NoTime, per |-> NoLookups, passed |-> FALSE,
                      success |-> FALSE, recorded |-> FALSE ]
    /\ last = LastNone

Ledger == << LOCAL_TRACKED_MATCHES, unresolved_bets, resolved_bets,
             unresolved_bets_cache >>

\* ----------------------------------------------------------------- actions
\* main.py 39-42, initialize_bot_services: Firebase, then the client.  B is
\* the set of outcomes of the two initializations.
InitializeOver_result_ignored(B) ==
    /\ pc = "boot"
    /\ \E fbOK \in B, clOK \in B :
         /\ SOFASCORE_CLIENT' =
                IF fbOK THEN initialize_sofascore_client(SOFASCORE_CLIENT, clOK)
                ELSE SOFASCORE_CLIENT
         /\ pc' = "loop"
         /\ last' = [LastNone EXCEPT !.op = "boot", !.success = fbOK /\ clOK]
    /\ UNCHANGED << RUNNING, cursor, now, Ledger, api_tracker, last_lookup_at, last_lookup_recorded, prev_sweep >>

InitializeOver(B) ==
    /\ pc = "boot"
    /\ \E fbOK \in B, clOK \in B :
         /\ SOFASCORE_CLIENT' =
                IF fbOK THEN initialize_sofascore_client(SOFASCORE_CLIENT, clOK)
                ELSE SOFASCORE_CLIENT
         /\ pc' = IF fbOK /\ clOK THEN "loop" ELSE "exit1"
         /\ last' = [LastNone EXCEPT !.op = "boot", !.success = fbOK /\ clOK]
    /\ UNCHANGED << RUNNING, cursor, now, Ledger, api_tracker, last_lookup_at, last_lookup_recorded, prev_sweep >>

\* get_live_matches (356-367): the live list, given by the place of the
\* loop before its first entity; a fetch that raises gives the empty list,
\* where the loop stands behind the last entity.
get_live_matches_keeps_list(feedOK) == 0

get_live_matches(feedOK) ==
    IF feedOK THEN 0
    ELSE CHOOSE x \in Entities : \A y \in Entities : y <= x

\* run_bot_cycle 694-702: the service check and get_live_matches.  A fetch
\* that raises gives the empty list.
StartCycleOver_unchecked(B) ==
    /\ pc = "loop"
    /\ RUNNING
    /\ \E feedOK \in B :
         /\ pc' = "feed"
         /\ cursor' = IF SOFASCORE_CLIENT # "none" THEN get_live_matches(feedOK)
                      ELSE get_live_matches(FALSE)
         /\ last' = [LastNone EXCEPT !.op = "start",
                        !.success = feedOK /\ SOFASCORE_CLIENT # "none"]
    /\ UNCHANGED << RUNNING, now, SOFASCORE_CLIENT, Ledger, api_tracker,
                    last_lookup_at, last_lookup_recorded, prev_sweep >>

StartCycleOver(B) ==
    /\ pc = "loop"
    /\ RUNNING
    /\ \E feedOK \in B :
         /\ IF SOFASCORE_CLIENT = "none"
            THEN pc' = "sleep" /\ cursor' = 0
            ELSE /\ pc' = "feed"
                 /\ cursor' = get_live_matches(feedOK)
         /\ last' = [LastNone EXCEPT !.op = "start",
                        !.success = feedOK /\ SOFASCORE_CLIENT # "none"]
    /\ UNCHANGED << RUNNING, now, SOFASCORE_CLIENT, Ledger, api_tracker,
                    last_lookup_at, last_lookup_recorded, prev_sweep >>

\* TRUE when the snapshot is a first-half one inside the betting minutes or
\* a halftime one (the snapshots that can reach a Firestore call).
Acts(m) ==
    \/ StatusOf(m.desc) = "1H" /\ m.minute \in MINUTES_REGULAR_BET
    \/ StatusOf(m.desc) = STATUS_HALFTIME

\* One iteration of the loop of run_bot_cycle over the live list (the list
\* is in id order; ids the list does not hold are passed over).  A match the
\* league filters (lines 532-575) drop returns before any state is touched
\* and counts as not in the list.  S is the set of snapshots the source can
\* deliver; with benign no Firestore or Telegram call fails.
ProcessOver(S, benign) ==
    /\ pc = "feed"
    /\ \E m \in S :
         /\ m.id > cursor
         /\ \E f \in (IF benign THEN {NoFault} ELSE StepFaults(World, m)) :
              \E w \in {process_live_match(World, m, f, now)} :
                  /\ LOCAL_TRACKED_MATCHES' = w.tracked
                  /\ unresolved_bets' = w.unresolved
                  /\ resolved_bets' = w.resolved
                  /\ unresolved_bets_cache' = w.cache
                  /\ last' =
                       IF Acts(m)
                       THEN [LastNone EXCEPT
                                !.op = "process", !.id = m.id,
                                !.desc = m.desc,
                                !.status = StatusOf(m.desc),
                                !.minute = m.minute, !.score = m.score,
                                !.f = f, !.msgs = w.msgs]
                       ELSE [LastNone EXCEPT
                                !.op = "process", !.id = m.id,
                                !.desc = m.desc,
                                !.status = StatusOf(m.desc)]
         /\ cursor' = m.id
    /\ UNCHANGED << pc, RUNNING, now, SOFASCORE_CLIENT, api_tracker,
                    last_lookup_at, last_lookup_recorded, prev_sweep >>

\* A snapshot without the expected fields: process_live_match raises before
\* it touches any state, the exception leaves run_bot_cycle and main.py
\* catches it (lines 52-54).
MalformedMatch ==
    /\ pc = "feed"
    /\ \E id \in Entities :
         /\ id > cursor
         /\ last' = [LastNone EXCEPT !.op = "raise", !.id = id]
    /\ pc' = "sleep"
    /\ cursor' = 0
    /\ UNCHANGED << RUNNING, now, SOFASCORE_CLIENT, Ledger, api_tracker,
                    last_lookup_at, last_lookup_recorded, prev_sweep >>

\* The stale bets a sweep at time t would fetch (none when it returns early).
SweepTargets(w, gate, f, t) ==
    LET stale_bets == get_stale_unresolved_bets(w.unresolved, f.scan, t)
        last_call == get_last_api_call(gate, f.rd)
    IN  IF time_since_last_call(last_call, t) < FIXTURE_API_INTERVAL
        THEN {} ELSE stale_bets

\* run_bot_cycle 707: the live list is exhausted, the stale sweep runs.  The
\* outcomes of calls the sweep does not make are left at their defaults.
\* F is the set of Firestore outcomes, P the set of fetch outcomes.
SweepOver(F, P) ==
    /\ pc = "feed"
    /\ \E f \in F :
         /\ get_stale_unresolved_bets(unresolved_bets, f.scan, now) = {} => f.rd
         /\ \E fetch \in [SweepTargets(World, api_tracker, f, now) -> P] :
              \E r \in {check_and_resolve_stale_bets(
                           World, SOFASCORE_CLIENT, api_tracker, f, fetch, now)} :
                  /\ ~r.success => f.wr
                  /\ LOCAL_TRACKED_MATCHES' = r.w.tracked
                  /\ unresolved_bets' = r.w.unresolved
                  /\ resolved_bets' = r.w.resolved
                  /\ unresolved_bets_cache' = r.w.cache
                  /\ SOFASCORE_CLIENT' = r.client
                  /\ api_tracker' = r.gate
                  /\ last_lookup_at' =
                         IF r.lookups > 0 THEN now ELSE last_lookup_at
                  /\ last_lookup_recorded' =
                         IF r.lookups > 0 THEN r.success /\ f.wr
                         ELSE last_lookup_recorded
                  /\ last' = [LastNone EXCEPT !.op = "sweep",
                                 !.msgs = r.w.msgs,
                                 !.f = [NoFault EXCEPT !.rd = f.rd, !.set = f.wr],
                                 !.stale = r.stale, !.passed = r.passed,
                                 !.lookups = r.lookups, !.restarts = r.restarts,
                                 !.tried = r.tried, !.per = r.per,
                                 !.finished = r.finished,
                                 !.unsent = r.unsent, !.success = r.success,
                                 !.gate_reads = r.gate_reads]
                  /\ prev_sweep' = [ at |-> now, per |-> r.per,
                                     passed |-> r.passed, success |-> r.success,
                                     recorded |-> r.success /\ f.wr ]
    /\ pc' = "sleep"
    /\ cursor' = 0
    /\ UNCHANGED << RUNNING, now >>

\* main.py 56-59: sleep while RUNNING, then back to the loop test.  The
\* clock stops the run at the horizon, or (saturate) stays there, the
\* horizon then standing for every later time.
SleepOver(saturate, horizon) ==
    /\ pc = "sleep"
    /\ IF ~RUNNING THEN now' = now
       ELSE IF now + Tick <= horizon THEN now' = now + Tick
       ELSE saturate /\ now' = now
    /\ pc' = "loop"
    /\ last' = [LastNone EXCEPT !.op = "sleep"]
    /\ UNCHANGED << RUNNING, cursor, SOFASCORE_CLIENT, Ledger, api_tracker,
                    last_lookup_at, last_lookup_recorded, prev_sweep >>

\* ------------------------------------------- the alert lifecycle (Spec)
\* Every snapshot, every Firestore, Telegram and feed failure; the ledger
\* holds at most a regular bet of an earlier run.
Init == InitOver({Empty, [x \in {101} |-> RegularOld]}, {NoTime})
InitializeBotServices == InitializeOver(BOOLEAN)
StartCycle == StartCycleOver(BOOLEAN)
ProcessLiveMatch == ProcessOver(Snapshots, FALSE)
StaleSweep == SweepOver(SweepFaults, FetchInputs)
Sleep == SleepOver(FALSE, MaxTime)

Next ==
    \/ InitializeBotServices
    \/ StartCycle
    \/ ProcessLiveMatch
    \/ MalformedMatch
    \/ StaleSweep
    \/ Sleep

Spec == Init /\ [][Next]_vars

\* ------------------------------------------ the stale sweep (SweepSpec)
\* The ledger holds 32_over bets of an earlier version, the gate may have
\* been written shortly before the start; one match is live.
SweepLedgers ==
    { [x \in {101} |-> LegacyOld],
      [x \in {101} |-> LegacyNew],
      [x \in {101, 102} |-> LegacyOld] }
SweepGates == {NoTime, StartTime - Tick}
SweepSnapshots ==
    { m \in Snapshots : m.id = 102 /\ m.score = "1-1" /\ m.minute \in {36, NoMinute}
                        /\ m.desc \in {{"1ST HALF"}, {"HALFTIME"}} }
SweepInit == InitOver(SweepLedgers, SweepGates)
SweepProcess == ProcessOver(SweepSnapshots, TRUE)
SweepSleep == SleepOver(FALSE, SweepMaxTime)

SweepNext ==
    \/ InitializeBotServices
    \/ StartCycle
    \/ SweepProcess
    \/ StaleSweep
    \/ SweepSleep

SweepSpec == SweepInit /\ [][SweepNext]_vars

\* ------------------------------------- fair, fault-free runs (FairSpec)
\* The loop of main.py never stops by itself: every cycle is followed by
\* the next one.  No call fails; the snapshots are whatever the source
\* delivers.
BenignFetch == { p \in FetchInputs : p.first = 1 /\ p.tg = 1 }
FairInit == InitOver({Empty, [x \in {101} |-> RegularOld]}, {NoTime})
FairInitialize == InitializeOver({TRUE})
FairStartCycle == StartCycleOver({TRUE})
FairSnapshots ==
    { m \in Snapshots : m.score \in {"0-0", "1-1"} /\ m.minute \in {36, NoMinute} }
FairProcess == ProcessOver(FairSnapshots, TRUE)
FairSweep == SweepOver({[scan |-> TRUE, rd |-> TRUE, wr |-> TRUE]}, BenignFetch)
FairSleep == SleepOver(TRUE, MaxTime)

FairNext ==
    \/ FairInitialize
    \/ FairStartCycle
    \/ FairProcess
    \/ FairSweep
    \/ FairSleep

FairSpec == FairInit /\ [][FairNext]_vars /\ WF_vars(FairNext)

\* -------------------------- bot.py run as a script (BotMainSpec)
\* bot.py 711-725: the loop of the module's own entry point.  A failed
\* initialization skips the loop and the script ends; an exception out of
\* run_bot_cycle is caught outside the while loop (line 721), reported, and
\* after shutdown_bot the script ends.  No Firestore or Telegram call fails.
BotMainInitialize ==
    /\ pc = "boot"
    /\ \E fbOK \in BOOLEAN, clOK \in BOOLEAN :
         /\ SOFASCORE_CLIENT' =
                IF fbOK THEN initialize_sofascore_client(SOFASCORE_CLIENT, clOK)
                ELSE SOFASCORE_CLIENT
         /\ pc' = IF fbOK /\ clOK THEN "loop" ELSE "exit0"
         /\ last' = [LastNone EXCEPT !.op = "boot", !.success = fbOK /\ clOK]
    /\ UNCHANGED << RUNNING, cursor, now, Ledger, api_tracker, last_lookup_at,
                    last_lookup_recorded, prev_sweep >>

BotMainRaise ==
    /\ pc = "feed"
    /\ \E id \in Entities :
         /\ id > cursor
         /\ last' = [LastNone EXCEPT !.op = "raise", !.id = id,
                        !.msgs = Notify(World, "critical", id, 1).msgs]
    /\ pc' = "exit0"
    /\ cursor' = 0
    /\ UNCHANGED << RUNNING, now, SOFASCORE_CLIENT, Ledger, api_tracker,
                    last_lookup_at, last_lookup_recorded, prev_sweep >>

BotMainProcess == ProcessOver(FairSnapshots, TRUE)

BotMainNext ==
    \/ BotMainInitialize
    \/ StartCycle
    \/ BotMainProcess
    \/ BotMainRaise
    \/ StaleSweep
    \/ Sleep

BotMainSpec == Init /\ [][BotMainNext]_vars

\* --------------------- main.py under shutdown signals (MainSpec)
\* signal_handler (main.py 20-27): SIGINT or SIGTERM clears RUNNING and
\* returns; the interrupted call goes on where it was.  The handlers are
\* registered before the services are initialized (lines 36-37).
Signal ==
    /\ pc \notin {"exit0", "exit1"}
    /\ RUNNING
    /\ RUNNING' = FALSE
    /\ UNCHANGED << pc, cursor, now, SOFASCORE_CLIENT, Ledger, api_tracker,
                    last_lookup_at, last_lookup_recorded, prev_sweep, last >>

\* shutdown_bot (bot.py 320-325): close() is called when a client exists,
\* and is not guarded; the result counts the calls that returned.
shutdown_bot(client, closeOK) ==
    IF client = "none" THEN [client |-> client, closes |-> 0, raised |-> FALSE]
    ELSE IF closeOK THEN [client |-> "closed", closes |-> 1, raised |-> FALSE]
    ELSE [client |-> client, closes |-> 0, raised |-> TRUE]

\* main.py 45 and 61-65: the loop test fails, shutdown_bot runs and the
\* process exits with status 0; an exception out of shutdown_bot is not
\* caught and ends the process with status 1.
Shutdown ==
    /\ pc = "loop"
    /\ ~RUNNING
    /\ \E closeOK \in BOOLEAN :
         \E r \in {shutdown_bot(SOFASCORE_CLIENT, closeOK)} :
             /\ SOFASCORE_CLIENT' = r.client
             /\ pc' = IF r.raised THEN "exit1" ELSE "exit0"
             /\ last' = [LastNone EXCEPT !.op = "shutdown",
                            !.closes = r.closes, !.success = ~r.raised]
    /\ UNCHANGED << RUNNING, cursor, now, Ledger, api_tracker, last_lookup_at,
                    last_lookup_recorded, prev_sweep >>

\* The ledger holds a stale 32_over bet, so that a sweep can restart the
\* client, and one match is live; no Firestore call fails.
MainInit == InitOver({[x \in {101} |-> LegacyOld]}, {NoTime})
\* Among the snapshots are some whose status text has no known keyword,
\* in the betting minutes and with a qualifying score.
MainSnapshots ==
    SweepSnapshots
    \cup [ id : {102}, desc : {{"INTERRUPTED"}, {"NOT STARTED"}},
           minute : {36}, score : {"1-1"} ]
MainProcess == ProcessOver(MainSnapshots, TRUE)
MainSweep ==
    SweepOver({[scan |-> TRUE, rd |-> TRUE, wr |-> TRUE]},
              {p \in FetchInputs : p.tg = 1 /\ p.first \in {0, 1}})

MainNext ==
    \/ InitializeBotServices
    \/ StartCycle
    \/ MainProcess
    \/ MalformedMatch
    \/ MainSweep
    \/ Sleep
    \/ Signal
    \/ Shutdown

MainSpec == MainInit /\ [][MainNext]_vars /\ WF_vars(MainNext)

\* ------------------------- the status normalization alone (StatusSpec)
\* The keywords lines 581-584 look for, and the status texts made of them:
\* a text is the set of the keywords it contains, or one of the exact texts
\* line 585 compares with, or a text without any of these.
StatusKeywords ==
    {"1ST HALF", "2ND HALF", "HALFTIME", "FINISHED", "ENDED", "CANCELLED"}
StatusTexts ==
    (SUBSET StatusKeywords) \cup {{x} : x \in STATUS_LIVE \cup {"NOT STARTED"}}

\* The state outside the observation record when a pure function is applied
\* to an input held in the record.
Idle(at) ==
    /\ pc = at
    /\ RUNNING = TRUE
    /\ cursor = 0
    /\ now = StartTime
    /\ SOFASCORE_CLIENT = "none"
    /\ LOCAL_TRACKED_MATCHES = Empty
    /\ resolved_bets = Empty
    /\ unresolved_bets_cache = Empty
    /\ api_tracker = NoTime
    /\ last_lookup_at = NoTime
    /\ last_lookup_recorded = FALSE
    /\ prev_sweep = [ at |-> NoTime, per |-> NoLookups, passed |-> FALSE,
                      success |-> FALSE, recorded |-> FALSE ]

StatusInit ==
    /\ Idle("status")
    /\ unresolved_bets = Empty
    /\ last \in {[LastNone EXCEPT !.op = "input", !.desc = d] : d \in StatusTexts}

\* Lines 578-585 applied to the text.
Normalize ==
    /\ pc = "status"
    /\ pc' = "done"
    /\ last' = [last EXCEPT !.op = "status", !.status = StatusOf(last.desc)]
    /\ UNCHANGED << RUNNING, cursor, now, SOFASCORE_CLIENT, Ledger, api_tracker,
                    last_lookup_at, last_lookup_recorded, prev_sweep >>

StatusSpec == StatusInit /\ [][Normalize]_vars

\* ----------------------------- the stale selection alone (StaleSpec)
\* The documents 'unresolved_bets' can hold: both bet types, placed around
\* the staleness threshold of the start time (StartTime minus the wait is
\* Tick), or without 'placed_at'.
StaleTimes == {0, Tick - 1, Tick, Tick + 1, NoTime}
StaleDocs ==
    [bet_type : {BET_TYPE_REGULAR, BET_TYPE_LEGACY}, s36 : {"1-1"},
     placed_at : StaleTimes]
StaleLedgers == UNION {[D -> StaleDocs] : D \in SUBSET Entities}

\* last.f.rd says whether the scan of the collection succeeds.
StaleInit ==
    /\ Idle("stale")
    /\ unresolved_bets \in StaleLedgers
    /\ last \in {[LastNone EXCEPT !.op = "input", !.f.rd = scanOK] :
                    scanOK \in BOOLEAN}

\* get_stale_unresolved_bets applied to the ledger, as line 627 calls it.
SelectStale ==
    /\ pc = "stale"
    /\ pc' = "done"
    /\ last' = [last EXCEPT !.op = "stale",
                   !.stale = get_stale_unresolved_bets(unresolved_bets,
                                                       last.f.rd, now)]
    /\ UNCHANGED << RUNNING, cursor, now, SOFASCORE_CLIENT, Ledger, api_tracker,
                    last_lookup_at, last_lookup_recorded, prev_sweep >>

StaleSpec == StaleInit /\ [][SelectStale]_vars

\* ------------------------------- send_telegram alone (TelegramSpec)
TelegramInit ==
    /\ Idle("send")
    /\ unresolved_bets = Empty
    /\ last \in { [LastNone EXCEPT !.op = "input",
                      !.send = [NoSend EXCEPT !.token = tk, !.chat_id = ch,
                                              !.responses = rs]] :
                    tk \in BOOLEAN, ch \in BOOLEAN,
                    rs \in [1..max_retries -> PostResults] }

SendTelegram ==
    /\ pc = "send"
    /\ pc' = "done"
    /\ \E r \in {send_telegram_with(last.send.token, last.send.chat_id,
                                     last.send.responses)} :
          last' = [last EXCEPT !.op = "send",
                      !.send = [@ EXCEPT !.ret = r.ret, !.attempts = r.attempts,
                                         !.slept = r.slept, !.raised = r.raised]]
    /\ UNCHANGED << RUNNING, cursor, now, SOFASCORE_CLIENT, Ledger, api_tracker,
                    last_lookup_at, last_lookup_recorded, prev_sweep >>

TelegramSpec == TelegramInit /\ [][SendTelegram]_vars

\* ================================================================ claims
Open(e) == e \in DOMAIN unresolved_bets
Closed(e) == e \in DOMAIN resolved_bets
Flag(e) == e \in DOMAIN LOCAL_TRACKED_MATCHES /\ LOCAL_TRACKED_MATCHES[e].placed
\* The step just taken processed a snapshot of e in the given phase.
Processed(e, status) ==
    last.op = "process" /\ last.id = e /\ last.status = status
InWindow == last.minute \in MINUTES_REGULAR_BET
Sent(kind) == \E i \in 1..Len(last.msgs) : last.msgs[i].kind = kind
\* Every Firestore call of the step just taken succeeded.
LedgerOK == last.f.rd /\ last.f.set /\ last.f.del

\* C1: global lock - the number of open alerts (documents of
\* 'unresolved_bets') is at most 1 at every observation point.
C1_GlobalLock == Cardinality(DOMAIN unresolved_bets) <= 1

\* C3: checkpoint resolution.  A halftime snapshot of an entity with an open
\* regular alert: whenever the step writes a closed alert, it is the open
\* alert plus the outcome ('win' iff the halftime score is the trigger score,
\* else 'loss') plus the resolution time; when the Firestore calls of the
\* step succeed the closed alert is written and the open alert is deleted.
\* A halftime snapshot of an entity without an open alert changes nothing in
\* the ledger.
C3_CheckpointResolution ==
    [][ \A e \in Entities :
          Processed(e, STATUS_HALFTIME)' =>
            IF Open(e)
            THEN LET a == unresolved_bets[e]
                     closed == [ bet_type |-> a.bet_type, s36 |-> a.s36,
                                 placed_at |-> a.placed_at,
                                 outcome |-> IF last'.score = a.s36
                                             THEN "win" ELSE "loss",
                                 resolved_at |-> now ]
                 IN  a.bet_type = BET_TYPE_REGULAR =>
                       /\ resolved_bets' # resolved_bets =>
                            resolved_bets' = Put(resolved_bets, e, closed)
                       /\ LedgerOK' =>
                            /\ resolved_bets' = Put(resolved_bets, e, closed)
                            /\ unresolved_bets' = Del(unresolved_bets, e)
            ELSE /\ resolved_bets' = resolved_bets
                 /\ unresolved_bets' = unresolved_bets ]_vars

\* C3 witness: a halftime step has just closed an alert as a win, another
\* entity's snapshot aside.
C3_Witness ==
    \E e \in Entities :
        /\ Processed(e, STATUS_HALFTIME) /\ LedgerOK
        /\ Closed(e) /\ ~Open(e)
        /\ resolved_bets[e].outcome = "win"
        /\ resolved_bets[e].resolved_at = now
        /\ resolved_bets[e].placed_at = now - Tick

\* C4: resolution idempotence.  Once an entity's alert has been resolved
\* (closed alert written, open alert deleted), a further halftime snapshot
\* of the entity, and a further direct call of check_ht_result, writes or
\* changes no closed alert, creates no open alert and sends no notification,
\* whatever the score and whether or not the Firestore read succeeds.
C4_ResolutionIdempotent ==
    \A e \in Entities :
        Closed(e) /\ ~Open(e) =>
          \A score \in Scores, rd \in BOOLEAN :
            LET f == [NoFault EXCEPT !.rd = rd]
                m == [id |-> e, desc |-> {"HALFTIME"}, minute |-> NoMinute,
                      score |-> score]
                direct == check_ht_result(World, e, score, f, now)
                again == process_live_match(World, m, f, now)
            IN  /\ direct.resolved = resolved_bets
                /\ direct.unresolved = unresolved_bets
                /\ direct.msgs = << >>
                /\ again.resolved = resolved_bets
                /\ again.unresolved = unresolved_bets
                /\ again.msgs = << >>

\* C4 witness: a second halftime snapshot of an entity whose alert was
\* resolved in an earlier cycle has just been processed.
C4_Witness ==
    \E e \in Entities :
        /\ Processed(e, STATUS_HALFTIME)
        /\ Closed(e) /\ ~Open(e)
        /\ resolved_bets[e].resolved_at < now
        /\ last.msgs = << >>

\* C5: trigger window exactness.  A first-half snapshot inside the betting
\* minutes of an entity whose flag '36_bet_placed' is not set sets the flag,
\* whether or not the score qualifies; one of an entity whose flag is set
\* evaluates nothing (no ledger change, no notification, tracker unchanged);
\* and no first-half snapshot clears the flag.
C5_TriggerWindowOnce ==
    [][ \A e \in Entities :
          Processed(e, "1H")' =>
            /\ InWindow' /\ ~Flag(e) => Flag(e)'
            /\ InWindow' /\ Flag(e) =>
                 /\ UNCHANGED Ledger
                 /\ last'.msgs = << >>
            /\ Flag(e) => Flag(e)' ]_vars

\* C5 witness: the first snapshot in the window did not qualify, a later one
\* in the window does, and nothing was opened.
C5_Witness ==
    \E e \in Entities :
        /\ Processed(e, "1H") /\ InWindow
        /\ last.score \in QualifyingScores
        /\ Flag(e) /\ LOCAL_TRACKED_MATCHES[e].score = None
        /\ ~Open(e) /\ ~Closed(e)
        /\ last.msgs = << >>

\* C7: idempotent opening - place_regular_bet for an entity that already has
\* an open alert leaves the open alert as it is and sends no notification,
\* also after a restart (empty tracker and cache) and when the read fails.
C7_IdempotentOpening ==
    [][ \A e \in Entities :
          (Processed(e, "1H")' /\ InWindow' /\ ~Flag(e) /\ Open(e)) =>
            /\ Open(e)' /\ unresolved_bets'[e] = unresolved_bets[e]
            /\ last'.msgs = << >> ]_vars

\* C8: an opening notification is sent only by a call that created an open
\* alert, and then exactly once.
C8_NotificationOnlyOnOpen ==
    (last.op = "process" /\ Sent("placed")) =>
        /\ Len(last.msgs) = 1
        /\ Open(last.id)
        /\ unresolved_bets[last.id] =
              [bet_type |-> BET_TYPE_REGULAR, s36 |-> last.score,
               placed_at |-> now]

\* C2: every alert is eventually resolved.  Under fair execution of the poll
\* cycles an open alert that has waited longer than
\* BET_RESOLUTION_WAIT_MINUTES (its checkpoint was not observed, the fallback
\* sweep's case) is eventually moved to the closed set.
C2_EventuallyResolved ==
    \A e \in Entities :
        (Open(e) /\ unresolved_bets[e].placed_at
                      < now - BET_RESOLUTION_WAIT_MINUTES * 60)
          ~> (Closed(e) /\ ~Open(e))

\* StakingPolicy.next of the specification (section 4.4): closed is the set
\* of closed alerts, the most recently resolved one decides.
StakingPolicyNext(closed, baseStake, maxChaseLevel) ==
    IF closed = {} THEN << baseStake, 1 >>
    ELSE LET lastClosed == CHOOSE c \in closed :
                               \A d \in closed : d.resolved_at <= c.resolved_at
         IN  IF lastClosed.outcome = "win" THEN << baseStake, 1 >>
             ELSE IF lastClosed.sequence < maxChaseLevel
                  THEN << baseStake * 2 ^ lastClosed.sequence,
                          lastClosed.sequence + 1 >>
                  ELSE << baseStake, 1 >>

\* C6: staking policy - there is a configuration (baseStake, maxChaseLevel)
\* for which every alert place_regular_bet has just opened carries the stake
\* and the sequence StakingPolicy.next gives for the most recently closed
\* alert.
C6_StakingPolicy ==
    \E baseStake \in 1..2, maxChaseLevel \in 1..3 :
        \A e \in Entities :
            (Processed(e, "1H") /\ Sent("placed") /\ Open(e)) =>
                /\ {"stake", "sequence"} \subseteq DOMAIN unresolved_bets[e]
                /\ << unresolved_bets[e].stake, unresolved_bets[e].sequence >>
                     = StakingPolicyNext(
                           { resolved_bets[c] : c \in DOMAIN resolved_bets },
                           baseStake, maxChaseLevel)

\* The step just taken was a stale sweep that attempted a point lookup.
LookedUp == last.op = "sweep" /\ last.lookups > 0

SecondSweepInInterval ==
    /\ last'.op = "sweep"
    /\ prev_sweep.at # NoTime
    /\ now - prev_sweep.at < FIXTURE_API_INTERVAL

FetchCourses ==
    [ first : 0..(MAX_FETCH_RETRIES + 1), closeOK : BOOLEAN, initOK : BOOLEAN,
      finished : {TRUE}, tg : {1}, set : {TRUE}, del : {TRUE} ]

\* C13: bounded fetch with restart fallback.  From the client the process
\* holds, one robust_get_finished_match_details makes at most
\* MAX_FETCH_RETRIES ordinary calls of get_finished_match_details and returns
\* at the first that succeeds; it restarts the client at most once, and only
\* when all of them failed; the restart is followed by exactly one more call
\* unless close() raised; and it returns None when no call succeeded.
C13_BoundedFetch ==
    \A p \in FetchCourses :
        LET c == SOFASCORE_CLIENT
            r == robust_get_finished_match_details(c, p)
            early == c = "ready" /\ p.first \in 1..MAX_FETCH_RETRIES
            raised == c = "ready" /\ ~p.closeOK
        IN  /\ r.calls <= MAX_FETCH_RETRIES + 1
            /\ r.lookups <= r.calls
            /\ r.restarts <= 1
            /\ early => /\ r.ret /\ r.calls = p.first /\ r.lookups = p.first
                        /\ r.restarts = 0 /\ r.client = c
            /\ ~early =>
                 /\ r.restarts = 1
                 /\ r.calls = IF raised THEN MAX_FETCH_RETRIES
                              ELSE MAX_FETCH_RETRIES + 1
                 /\ r.ret <=> ( ~raised /\ p.initOK
                                /\ p.first = MAX_FETCH_RETRIES + 1 )
                 /\ r.client = IF raised THEN c
                               ELSE IF p.initOK THEN "ready" ELSE "none"

\* C13 witness: a sweep has fetched its one stale bet with three failed
\* lookups, a client restart and a successful fourth lookup.
C13_Witness ==
    /\ last.op = "sweep" /\ last.passed
    /\ Cardinality(last.tried) = 1
    /\ last.restarts = 1 /\ last.lookups = MAX_FETCH_RETRIES + 1
    /\ last.success /\ SOFASCORE_CLIENT = "ready"

\* C14: recovery after exhausted retries.  After a sweep in which every
\* fetch failed, client restart included, the next poll cycle still runs: it
\* fetches the live list, processes the snapshots and sweeps again.
C14_NextCycleRuns ==
    (last.op = "start" /\ prev_sweep.passed /\ ~prev_sweep.success)
        => pc = "feed"

\* C15: stale-cleanup resolution.  Every stale open alert for which the
\* sweep just made obtained a finished state has been moved to the closed
\* set by that sweep, as a loss (no bet type has a terminal-resolution rule).
C15_StaleCleanup ==
    last.op = "sweep" =>
        \A e \in last.finished :
            /\ ~Open(e)
            /\ Closed(e)
            /\ resolved_bets[e].outcome = "loss"

\* C16: persistence failure is a non-event.  When the set() of an opening
\* fails, the flag '36_bet_placed' stays unset and no notification is sent;
\* when the set() or the delete() of a resolution fails, the tracked state
\* and the open alert stay and no notification is sent.
C16_PersistenceFailureNonEvent ==
    last.op = "process" =>
        /\ (last.status = "1H" /\ ~last.f.set) =>
              /\ ~Flag(last.id)
              /\ last.msgs = << >>
        /\ (last.status = STATUS_HALFTIME /\ (~last.f.set \/ ~last.f.del)) =>
              /\ last.id \in DOMAIN LOCAL_TRACKED_MATCHES
              /\ Open(last.id)
              /\ last.msgs = << >>

\* C17: notification is not a commit condition.  On each path that changes
\* the ledger a notification that cannot be delivered leaves the change in
\* place: the opened alert is in 'unresolved_bets', the alert resolved at
\* halftime is in 'resolved_bets' only, and so is the stale alert whose
\* finished state the sweep has obtained.
C17_NotificationNotCommit ==
    /\ (last.op = "process" /\ last.status = "1H"
          /\ last.f.tg = 0 /\ last.f.set) =>
            /\ Open(last.id)
            /\ unresolved_bets[last.id].placed_at = now
    /\ (last.op = "process" /\ last.status = STATUS_HALFTIME
          /\ last.f.tg = 0 /\ last.f.set /\ last.f.del) =>
            /\ Closed(last.id) /\ ~Open(last.id)
            /\ resolved_bets[last.id].resolved_at = now
    /\ last.op = "sweep" =>
            \A e \in last.unsent : Closed(e) /\ ~Open(e)

\* C18: parse/shape failure isolation.  When a snapshot of the live list
\* lacks an expected field, the cycle goes on behind it: the loop over the
\* live list stands behind that snapshot, to process the remaining ones and
\* run the stale sweep.
C18_MalformedSnapshotIsolated ==
    last.op = "raise" => (pc = "feed" /\ cursor = last.id)

\* C19: the process never terminates because of a single cycle's error.
\* When run_bot_cycle raises, the run loop catches the exception and sleeps,
\* the next cycle to follow; the process has not ended.
C19_CycleErrorNotFatal ==
    last.op = "raise" => (pc = "sleep" /\ RUNNING)

\* C20: initialization failure is fatal.  initialize_bot_services succeeds
\* exactly when Firebase and the Sofascore client both initialize, and only
\* then the loop is entered (with a client); otherwise the process exits
\* with status 1, and nothing runs after that exit.
C20_InitFailureFatal ==
    [][ /\ pc # "exit1"
        /\ pc = "boot" =>
             /\ last'.op = "boot"
             /\ last'.success <=> SOFASCORE_CLIENT' = "ready"
             /\ pc' = IF last'.success THEN "loop" ELSE "exit1"
             /\ UNCHANGED Ledger
        /\ pc' = "exit1" => pc = "boot" ]_vars

\* C20 witness: the initialization has failed and the process has exited
\* with status 1 before any cycle.
C20_Witness ==
    /\ pc = "exit1"
    /\ last.op = "boot" /\ ~last.success
    /\ SOFASCORE_CLIENT = "none"
    /\ prev_sweep.at = NoTime

\* C21: graceful cancellation.  Once a shutdown signal has cleared RUNNING,
\* no new cycle starts, a cycle that is in progress goes on to its end (the
\* stale sweep or a caught exception), and from the loop test the process
\* leaves through shutdown_bot, which closes the client exactly once, with
\* exit status 0; and after a signal the process does end.
C21_GracefulCancellation ==
    /\ [][ ~RUNNING =>
             /\ last'.op # "start"
             /\ pc = "feed" =>
                   /\ pc' \in {"feed", "sleep"}
                   /\ last'.op \in {"process", "raise", "sweep"}
             /\ pc = "loop" =>
                   /\ last'.op = "shutdown"
                   /\ last'.closes = 1
                   /\ pc' = "exit0" ]_vars
    /\ (~RUNNING) ~> (pc \in {"exit0", "exit1"})

\* C21, the part that holds: after a signal no cycle starts, the cycle in
\* progress is finished, shutdown_bot runs once, and the process ends.
C21_CycleFinishedFirst ==
    /\ [][ ~RUNNING =>
             /\ last'.op # "start"
             /\ pc = "feed" =>
                   /\ pc' \in {"feed", "sleep"}
                   /\ last'.op \in {"process", "raise", "sweep"}
             /\ pc = "loop" =>
                   /\ last'.op = "shutdown"
                   /\ pc' \in {"exit0", "exit1"} ]_vars
    /\ (~RUNNING) ~> (pc \in {"exit0", "exit1"})

\* C22: cycle ordering and serialization.  A cycle starts from the loop test
\* only and fetches the live list there; the entities of the list are then
\* advanced one after the other, in list order; the cycle leaves the list
\* through the stale sweep, which runs once and ends the cycle; the next
\* loop test comes after the sleep that follows.  (A step that changes
\* RUNNING is the signal handler's, not the cycle's.)
C22_CycleOrder ==
    [][ RUNNING' = RUNNING =>
        /\ last'.op = "start" => (pc = "loop" /\ pc' = "feed")
        /\ last'.op = "process" =>
              (pc = "feed" /\ pc' = "feed" /\ cursor' > cursor)
        /\ last'.op = "sweep" => (pc = "feed" /\ pc' = "sleep")
        /\ (pc = "feed" /\ pc' # "feed") => last'.op = "sweep"
        /\ (pc' = "loop" /\ pc # "loop") => pc \in {"boot", "sleep"} ]_vars

\* C22, the part that holds: the steps of a cycle come in this order, and
\* no cycle starts inside another one.
C22_Serialized ==
    [][ RUNNING' = RUNNING =>
        /\ last'.op = "start" => (pc = "loop" /\ pc' \in {"feed", "sleep"})
        /\ last'.op = "process" =>
              (pc = "feed" /\ pc' = "feed" /\ cursor' > cursor)
        /\ last'.op = "sweep" => (pc = "feed" /\ pc' = "sleep")
        /\ (pc = "feed" /\ pc' # "feed") => last'.op \in {"sweep", "raise"}
        /\ (pc' = "loop" /\ pc # "loop") => pc \in {"boot", "sleep"} ]_vars

\* C23: closed alerts are append-only.  A record of 'resolved_bets' that has
\* been written is still there, unchanged, after every later step.
C23_ClosedAppendOnly ==
    [][ \A e \in DOMAIN resolved_bets :
            /\ e \in DOMAIN resolved_bets'
            /\ resolved_bets'[e] = resolved_bets[e] ]_vars

\* C24: atomic move-to-closed.  At no observation point is an alert both in
\* 'unresolved_bets' and in 'resolved_bets': a closed record of an entity
\* never stands beside the open record it was made from (a move that wrote
\* the closed record has deleted the open one).
C24_AtomicMove ==
    \A e \in Entities :
        ~ /\ Open(e)
          /\ Closed(e)
          /\ resolved_bets[e].placed_at = unresolved_bets[e].placed_at
          /\ resolved_bets[e].bet_type = unresolved_bets[e].bet_type
          /\ resolved_bets[e].s36 = unresolved_bets[e].s36

\* C25: opening guard.  A step that creates or rewrites an open alert is
\* the processing of a first-half snapshot of that entity, inside the
\* betting minutes, with a qualifying score, the entity's flag
\* '36_bet_placed' being unset before the step; the alert written carries
\* that snapshot's score, the type REGULAR and the time of the step.
C25_OpeningGuard ==
    [][ \A e \in Entities :
          (/\ e \in DOMAIN unresolved_bets'
           /\ (Open(e) => unresolved_bets'[e] # unresolved_bets[e])) =>
            /\ Processed(e, "1H")'
            /\ InWindow'
            /\ last'.score \in QualifyingScores
            /\ ~Flag(e)
            /\ unresolved_bets'[e] =
                  [bet_type |-> BET_TYPE_REGULAR, s36 |-> last'.score,
                   placed_at |-> now] ]_vars

\* C25 witness: an alert has just been opened for an entity that had none,
\* by a snapshot of minute 37 with score 2-2, and holds that score.
C25_Witness ==
    \E e \in Entities :
        /\ Processed(e, "1H") /\ last.minute = 37 /\ last.score = "2-2"
        /\ Open(e) /\ ~Closed(e)
        /\ unresolved_bets[e].s36 = "2-2"
        /\ unresolved_bets[e].bet_type = BET_TYPE_REGULAR
        /\ unresolved_bets[e].placed_at = now
        /\ Flag(e)

\* C26: garbage collection of dead trackers.  After a snapshot in a terminal
\* phase (finished, ended or cancelled) of an entity without an open alert
\* has been processed, the entity is not in LOCAL_TRACKED_MATCHES.
C26_DeadTrackerCollected ==
    \A e \in Entities :
        (Processed(e, "FT") /\ ~Open(e)) =>
            e \notin DOMAIN LOCAL_TRACKED_MATCHES

\* C27: state discard on resolution.  When the processing of a halftime
\* snapshot of an entity with an open alert has moved the alert to the
\* closed set (closed record written, open record deleted), the entity's
\* tracked state is gone after the same step; when the open alert is still
\* there after the step (the move failed or was not made), the tracked
\* state is still there too.
C27_StateDiscard ==
    [][ \A e \in Entities :
          (Processed(e, STATUS_HALFTIME)' /\ Open(e)) =>
            /\ ~Open(e)' =>
                  /\ Closed(e)'
                  /\ resolved_bets'[e].resolved_at = now
                  /\ e \notin DOMAIN LOCAL_TRACKED_MATCHES'
            /\ Open(e)' => e \in DOMAIN LOCAL_TRACKED_MATCHES' ]_vars

\* C27 witness: in one cycle the alert of one entity was moved and its
\* tracked state discarded, and the move of the other entity's alert has
\* just failed at the delete, its tracked state being kept.
C27_Witness ==
    \E e, d \in Entities :
        /\ Processed(e, STATUS_HALFTIME) /\ last.f.set /\ ~last.f.del
        /\ Open(e) /\ Closed(e) /\ resolved_bets[e].resolved_at = now
        /\ e \in DOMAIN LOCAL_TRACKED_MATCHES
        /\ d # e
        /\ Closed(d) /\ ~Open(d) /\ resolved_bets[d].resolved_at = now
        /\ d \notin DOMAIN LOCAL_TRACKED_MATCHES

\* C28: status normalization priority.  A status text that contains the
\* halftime keyword is classified as halftime, whatever other keywords it
\* contains.
C28_CheckpointFirst ==
    (last.op = "status" /\ "HALFTIME" \in last.desc) =>
        last.status = STATUS_HALFTIME

\* C28, what the code does: a text with the halftime keyword is classified
\* as halftime exactly when it contains neither half's keyword; the
\* first-half keyword wins over every other one.
C28_HalfKeywordsFirst ==
    last.op = "status" =>
        /\ "1ST HALF" \in last.desc => last.status = "1H"
        /\ ("HALFTIME" \in last.desc /\ "1ST HALF" \notin last.desc) =>
              (last.status = STATUS_HALFTIME <=> "2ND HALF" \notin last.desc)

\* A status text with none of the keywords of lines 581-584 that is none of
\* the texts of STATUS_LIVE either.
Unmapped(desc) ==
    /\ desc \cap StatusKeywords = {}
    /\ \A x \in STATUS_LIVE : desc # {x}

\* C29: an unmapped status is non-actionable.  The processing of a snapshot
\* whose status text maps to no known phase raises nothing (the loop over
\* the live list goes on) and has no effect: tracker, open and closed
\* alerts and cache are unchanged and no notification is sent.
C29_UnmappedNoEffect ==
    [][ (last'.op = "process" /\ Unmapped(last'.desc)) =>
          /\ UNCHANGED Ledger
          /\ UNCHANGED << SOFASCORE_CLIENT, api_tracker >>
          /\ last'.msgs = << >>
          /\ last'.status = "N/A"
          /\ pc' = "feed" ]_vars

\* C29 witness: a snapshot with an unmapped status, minute 36 and score 1-1
\* of an entity that is not tracked has been processed, and the entity is
\* still neither tracked nor alerted.
C29_Witness ==
    /\ last.op = "process" /\ last.id = 102 /\ Unmapped(last.desc)
    /\ last.desc = {"INTERRUPTED"}
    /\ 102 \notin DOMAIN LOCAL_TRACKED_MATCHES
    /\ ~Open(102) /\ ~Closed(102)

\* The open alerts that are not REGULAR and were placed more than the wait
\* ago.
Due ==
    { e \in DOMAIN unresolved_bets :
        /\ unresolved_bets[e].bet_type # BET_TYPE_REGULAR
        /\ unresolved_bets[e].placed_at # NoTime
        /\ now - unresolved_bets[e].placed_at > BET_RESOLUTION_WAIT_MINUTES * 60 }

\* C30: stale selection.  get_stale_unresolved_bets returns only open alerts
\* that are not REGULAR and are older than the wait, and all of them when
\* the scan of the collection succeeds; when every open alert is REGULAR
\* the result is empty, however old the alerts are.
C30_StaleSelection ==
    last.op = "stale" =>
        /\ last.stale \subseteq Due
        /\ last.f.rd => last.stale = Due
        /\ (\A e \in DOMAIN unresolved_bets :
                unresolved_bets[e].bet_type = BET_TYPE_REGULAR)
              => last.stale = {}

\* C30 witness: of two alerts older than the wait the one that is not
\* REGULAR has been selected and the REGULAR one has not.
C30_Witness ==
    /\ last.op = "stale" /\ last.f.rd
    /\ DOMAIN unresolved_bets = {101, 102}
    /\ unresolved_bets[101].bet_type = BET_TYPE_LEGACY
    /\ unresolved_bets[102].bet_type = BET_TYPE_REGULAR
    /\ unresolved_bets[101].placed_at = 0
    /\ unresolved_bets[102].placed_at = 0
    /\ last.stale = {101}

\* C31: an empty sweep is free.  A sweep that finds no stale alert returns
\* at once: no lookup, no client restart, no read and no update of the
\* gate, no notification, tracker, alerts and cache unchanged; the cycle
\* ends as usual.
C31_EmptySweepFree ==
    [][ (last'.op = "sweep" /\ pc = "feed" /\ last'.stale = {}) =>
          /\ UNCHANGED Ledger
          /\ UNCHANGED << api_tracker, SOFASCORE_CLIENT >>
          /\ last'.gate_reads = 0
          /\ ~last'.passed
          /\ last'.lookups = 0 /\ last'.restarts = 0 /\ last'.tried = {}
          /\ last'.msgs = << >>
          /\ UNCHANGED << last_lookup_at, last_lookup_recorded >>
          /\ pc' = "sleep" ]_vars

\* C31 witness: a sweep found nothing stale although an open alert exists
\* and the gate would have let a sweep pass, and the gate stands as before.
C31_Witness ==
    /\ last.op = "sweep" /\ last.stale = {} /\ last.gate_reads = 0
    /\ unresolved_bets # Empty
    /\ api_tracker = StartTime - Tick
    /\ now - api_tracker >= FIXTURE_API_INTERVAL
    /\ LOCAL_TRACKED_MATCHES # Empty

\* C32: sweep completeness.  In a sweep that passed the rate gate the fetch
\* is called for every stale alert of the set, whatever the fetches of the
\* other alerts gave, and as long as no restart took the client away every
\* one of them reached the network; then the cycle ends as usual.
C32_SweepComplete ==
    [][ (last'.op = "sweep" /\ pc = "feed" /\ last'.passed) =>
          /\ last'.stale # {}
          /\ last'.tried = last'.stale
          /\ last'.restarts = 0 => \A e \in last'.stale : last'.per[e] >= 1
          /\ pc' = "sleep" ]_vars

\* C32 witness: the three lookups of the first stale alert failed and so
\* did the restart, and the second stale alert was fetched all the same.
C32_Witness ==
    /\ last.op = "sweep" /\ last.passed
    /\ last.stale = {101, 102} /\ last.tried = {101, 102}
    /\ last.restarts = 1
    /\ last.per[101] = MAX_FETCH_RETRIES /\ 101 \notin last.finished
    /\ last.per[102] = 1 /\ 102 \in last.finished
    /\ last.success

\* The attempts of the call just made that got a 200.
Delivered == {i \in 1..max_retries : last.send.responses[i] = "200"}
FirstDelivered ==
    IF Delivered = {} THEN 0
    ELSE CHOOSE i \in Delivered : \A j \in Delivered : i <= j

\* C33: the notification send is bounded and non-throwing.  send_telegram
\* posts at most max_retries times; with a credential missing it posts
\* nothing and returns False; otherwise it stops at the first post that
\* gets a 200 and returns True, and returns False after max_retries posts
\* when none does; it raises in no case.  (The summary send_telegram used by
\* the handlers agrees with this.)
C33_SendBounded ==
    last.op = "send" =>
        /\ last.send.attempts <= max_retries
        /\ ~last.send.raised
        /\ (~last.send.token \/ ~last.send.chat_id) =>
              (~last.send.ret /\ last.send.attempts = 0)
        /\ (last.send.token /\ last.send.chat_id) =>
              /\ last.send.ret <=> Delivered # {}
              /\ last.send.ret => last.send.attempts = FirstDelivered
              /\ ~last.send.ret => last.send.attempts = max_retries
              /\ send_telegram(FirstDelivered).ret = last.send.ret
              /\ send_telegram(FirstDelivered).attempts = last.send.attempts

\* C33 witness: after a network error and a refusal the third post was
\* accepted, after three seconds of pauses.
C33_Witness ==
    /\ last.op = "send"
    /\ last.send.token /\ last.send.chat_id
    /\ last.send.responses = << "exception", "500", "200" >>
    /\ last.send.ret /\ last.send.attempts = 3 /\ last.send.slept = 3

\* C34: open-alert cache coherence.  At every point every entity in
\* _unresolved_bets_cache has its document in 'unresolved_bets', with the
\* cached content; so an alert that is in the closed set only is not in the
\* cache, and is_bet_unresolved answers True for open alerts only, whether
\* its read succeeds or fails.
C34_CacheCoherent ==
    /\ \A e \in DOMAIN unresolved_bets_cache :
          /\ Open(e)
          /\ unresolved_bets_cache[e] = unresolved_bets[e]
    /\ \A e \in Entities :
          /\ (Closed(e) /\ ~Open(e)) => e \notin DOMAIN unresolved_bets_cache
          /\ \A rdOK \in BOOLEAN :
                is_bet_unresolved(World, e, rdOK).ret => Open(e)

\* C34 witness: the set() of an opening has just failed and the entity is
\* not cached, while the other entity, whose move to closed failed at the
\* delete, is still cached and still open.
C34_Witness ==
    \E e, d \in Entities :
        /\ Processed(e, "1H") /\ InWindow /\ ~last.f.set
        /\ last.score \in QualifyingScores
        /\ ~Open(e) /\ e \notin DOMAIN unresolved_bets_cache
        /\ d # e
        /\ d \in DOMAIN unresolved_bets_cache /\ Open(d) /\ Closed(d)

\* C35: at most one alert per entity over its lifetime.  Once an alert of
\* an entity has been resolved (the entity has a closed alert and no open
\* one), no later step opens an alert for that entity.
C35_OneAlertPerEntity ==
    [][ \A e \in Entities : (Closed(e) /\ ~Open(e)) => ~Open(e)' ]_vars

\* C36: uninitialized services skip the cycle.  A cycle that starts
\* without a Sofascore client returns at once: no live list is fetched, no
\* snapshot is processed, no stale sweep runs, and tracker, alerts, cache,
\* gate and client are as before; the loop goes to its sleep.
C36_UninitializedSkips ==
    [][ (pc = "loop" /\ RUNNING /\ RUNNING' /\ SOFASCORE_CLIENT = "none") =>
          /\ last'.op = "start" /\ ~last'.success
          /\ pc' = "sleep"
          /\ UNCHANGED Ledger
          /\ UNCHANGED << api_tracker, SOFASCORE_CLIENT, now, prev_sweep,
                          last_lookup_at, last_lookup_recorded >> ]_vars

\* C36 witness: a cycle has been skipped for want of a client (a restart
\* in the previous sweep failed), the stale alert still being open.
C36_Witness ==
    /\ last.op = "start" /\ ~last.success /\ pc = "sleep"
    /\ SOFASCORE_CLIENT = "none"
    /\ prev_sweep.passed /\ prev_sweep.at < now
    /\ Open(101)
    /\ RUNNING

\* C37: a snapshot feed failure does not crash the cycle.  When the fetch
\* of the live list raises, the cycle goes on with an empty list: the start
\* of the cycle changes no tracked state, alert or cache entry, the step
\* that follows it in the cycle is the stale sweep (no snapshot is
\* processed, nothing is raised), and that sweep does run.
C37_FeedFailureIsolated ==
    /\ [][ /\ (pc = "loop" /\ SOFASCORE_CLIENT # "none"
                /\ last'.op = "start" /\ ~last'.success) =>
                  (pc' = "feed" /\ UNCHANGED Ledger)
           /\ (pc = "feed" /\ last.op = "start" /\ ~last.success
                /\ RUNNING' = RUNNING) =>
                  (last'.op = "sweep" /\ pc' = "sleep") ]_vars
    /\ (pc = "feed" /\ last.op = "start" /\ ~last.success)
           ~> (last.op = "sweep")

\* C37 witness: the fetch of the live list has failed in a cycle that
\* follows one in which an alert was opened; the cycle stands before its
\* sweep with the tracked state and the alert in place.
C37_Witness ==
    /\ last.op = "start" /\ ~last.success /\ pc = "feed"
    /\ SOFASCORE_CLIENT = "ready"
    /\ Open(102) /\ Flag(102)
    /\ now > StartTime

====
